---- MODULE Spec2Model ----
(***************************************************************************)
(* The asynchronous dispatch queue (messages/eventloop.py, MessageLoop)    *)
(* and the Telegram adapter (messages/telegram.py, TelegramBot).           *)
(*                                                                         *)
(* The specifications share the variables:                                 *)
(*   Spec / FairSpec  the dispatch queue: add_message, send_loop and the   *)
(*                    greenlets it spawns, interleaved at their network    *)
(*                    calls by the cooperative hub;                        *)
(*   SpecSend         direct send() calls on adapters whose recipient,     *)
(*                    attachments and verbosity are drawn from small sets; *)
(*   SpecLookup       get_chat_id() calls on the same adapters;            *)
(*   SpecConstruct    construct_message() calls on adapters whose sender,  *)
(*                    subject, body and params are drawn from small sets;  *)
(*   SpecCli          check_type and TelegramBot(...) calls with arguments *)
(*                    drawn from small sets, and send() calls on the       *)
(*                    adapter that was built.                              *)
(***************************************************************************)
EXTENDS Naturals, Sequences, FiniteSets, TLC

(* ------------------------------ bounds --------------------------------- *)

\* add_message calls in one behaviour of Spec
MaxAdds == 3

\* attachments of one adapter in SpecSend
MaxAtt == 2

\* attachments of one adapter handed to the dispatch queue in Spec
MaxQueueAtt == 1

\* direct send() calls in one behaviour of SpecSend
MaxSends == 2

\* updates in one getUpdates response
MaxUpdates == 2

(* ------------------------------ values --------------------------------- *)

\* Python's None
None == "<None>"

\* None where the other values are sequences of characters
NoneSeq == <<None>>

\* the adapters (objects with a send method) and the other objects
Bots == {"t1", "t2"}

Plain == {"junk"}

Objs == Bots \cup Plain

\* attachment urls
Docs == {"a", "b"}

\* HTTP status codes a response can carry
Statuses == {200, 204, 300, 404}

\* every sequence over S of length at most n
SeqsUpTo(S, n) == UNION {[1..k -> S] : k \in 0..n}

\* the attachment list a, b, a, ... of length n
Urls(n) == [i \in 1..n |-> IF i % 2 = 1 THEN "a" ELSE "b"]

\* the empty dict
EmptyDict == [k \in {} |-> None]

\* d[k] = v
DictSet(d, k, v) == [x \in DOMAIN d \cup {k} |-> IF x = k THEN v ELSE d[x]]

\* d.update(p)
DictUpdate(d, p) ==
    [x \in DOMAIN d \cup DOMAIN p |-> IF x \in DOMAIN p THEN p[x] ELSE d[x]]

\* truth value of an optional string: None and '' are false
Truthy(s) == s # None /\ s # ""

(* ------------------------------- state --------------------------------- *)

VARIABLES
    bots,      \* the TelegramBot objects: id -> fields (message is the payload buffer)
    messages,  \* MESSAGELOOP.messages, the deque
    pc,        \* the calling (main) greenlet: "idle", "send_loop", "raised" or "exited"
    running,   \* who holds control: "main" or the gevent "hub"; "nobody" after exit
    tasks,     \* the send() executions, in the order they were created
    enq,       \* the arguments of the add_message calls made so far
    lookup,    \* the last get_chat_id call and its outcome, if any
    printed,   \* the lines the latest step of a send() wrote to stdout
    made,      \* the last TelegramBot(...) call and its outcome, if any
    checked    \* the last check_type call and its outcome, if any

vars == <<bots, messages, pc, running, tasks, enq, lookup, printed, made, checked>>

\* hasattr(msg, 'send')
HasSend(msg) == msg \in Bots

(* --------------------------- TelegramBot ------------------------------- *)

\* TelegramBot.__init__: the fields of a new adapter
NewBot(from_, chat_id, to, subject, body, attachments, params, verbose) ==
    [from_ |-> from_, chat_id |-> chat_id, to |-> to, subject |-> subject,
     body |-> body, attachments |-> attachments, params |-> params,
     message |-> EmptyDict, verbose |-> verbose]

\* the saved profiles: profile name -> field -> value
Store ==
    [work |-> [from_ |-> None, credentials |-> "saved-token", chat_id |-> "77"]]

\* resolve(profile_name, field_name): the saved value, or None (absent)
resolve(profile, field) ==
    IF profile \in DOMAIN Store THEN Store[profile][field] ELSE None

\* configure(msg, params, to_save, credentials): each field takes the value
\* given or else the one saved under the profile; a field named in credentials
\* that is still absent is a configuration error
configure(params, credentials) ==
    LET value(f) == IF params[f] # None THEN params[f] ELSE resolve(params.profile, f)
    IN  [exc |-> IF \E f \in credentials : value(f) = None
                 THEN "ConfigurationError" ELSE None,
         from_ |-> value("from_"),
         credentials |-> value("credentials"),
         chat_id |-> value("chat_id")]

\* TelegramBot(...): the exception raised (exc) or the adapter built (obj, a
\* sequence of one adapter), with the credentials and chat_id configure
\* resolved; attachments None becomes []
TelegramBotInit(from_, credentials, chat_id, to, subject, body, attachments, params, profile, verbose) ==
    LET config_kwargs == [from_ |-> from_, credentials |-> credentials,
                          chat_id |-> chat_id, profile |-> profile]
        c == configure(config_kwargs, {"credentials"})
        \* 'https://api.telegram.org/bot' + self.credentials
        exc == IF c.exc # None THEN c.exc
               ELSE IF c.credentials = None THEN "TypeError"
               ELSE None
    IN  [exc |-> exc, credentials |-> c.credentials, chat_id |-> c.chat_id,
         obj |-> IF exc # None THEN <<>>
                 ELSE <<NewBot(c.from_, c.chat_id, to, subject, body,
                               IF attachments = NoneSeq THEN <<>> ELSE attachments,
                               params, verbose)>>]

\* construct_message with the Subject line added before the From line
construct_message_swapped(self) ==
    LET m1 == DictSet(self.message, "chat_id", self.chat_id)
        m2 == DictSet(m1, "text", "")
        m3 == IF Truthy(self.subject)
              THEN DictSet(m2, "text", m2["text"] \o ("Subject: " \o self.subject \o "\n"))
              ELSE m2
        m4 == IF Truthy(self.from_)
              THEN DictSet(m3, "text", m3["text"] \o ("From: " \o self.from_ \o "\n"))
              ELSE m3
        m5 == DictSet(m4, "text", m4["text"] \o self.body)
    IN  [self EXCEPT !.message = DictUpdate(m5, self.params)]

\* construct_message with params merged first, before the generated keys
construct_message_params_first(self) ==
    LET m0 == DictUpdate(self.message, self.params)
        m1 == DictSet(m0, "chat_id", self.chat_id)
        m2 == DictSet(m1, "text", "")
        m3 == IF Truthy(self.from_)
              THEN DictSet(m2, "text", m2["text"] \o ("From: " \o self.from_ \o "\n"))
              ELSE m2
        m4 == IF Truthy(self.subject)
              THEN DictSet(m3, "text", m3["text"] \o ("Subject: " \o self.subject \o "\n"))
              ELSE m3
    IN  [self EXCEPT !.message = DictSet(m4, "text", m4["text"] \o self.body)]

\* construct_message that first replaces a missing sender by '' on the adapter
construct_message_normalising(self) ==
    LET m1 == DictSet(self.message, "chat_id", self.chat_id)
        m2 == DictSet(m1, "text", "")
        m3 == IF Truthy(self.from_)
              THEN DictSet(m2, "text", m2["text"] \o ("From: " \o self.from_ \o "\n"))
              ELSE m2
        m4 == IF Truthy(self.subject)
              THEN DictSet(m3, "text", m3["text"] \o ("Subject: " \o self.subject \o "\n"))
              ELSE m3
        m5 == DictSet(m4, "text", m4["text"] \o self.body)
    IN  [self EXCEPT !.message = DictUpdate(m5, self.params),
                     !.from_ = IF Truthy(self.from_) THEN self.from_ ELSE ""]

\* TelegramBot.construct_message: the adapter after the call
construct_message(self) ==
    LET m1 == DictSet(self.message, "chat_id", self.chat_id)
        m2 == DictSet(m1, "text", "")
        m3 == IF Truthy(self.from_)
              THEN DictSet(m2, "text", m2["text"] \o ("From: " \o self.from_ \o "\n"))
              ELSE m2
        m4 == IF Truthy(self.subject)
              THEN DictSet(m3, "text", m3["text"] \o ("Subject: " \o self.subject \o "\n"))
              ELSE m3
        m5 == DictSet(m4, "text", m4["text"] \o self.body)
    IN  [self EXCEPT !.message = DictUpdate(m5, self.params)]

\* send_content: the content_type of a call with this payload
content_type(method, payload) ==
    IF method = "/sendMessage" THEN "Message body"
    ELSE "Attachment: " \o payload["document"]

\* send_content: the lines printed once the response r has arrived
send_content_out(verbose, method, payload, status) ==
    (IF status = 200 /\ verbose
     THEN <<content_type(method, payload) \o " sent.">> ELSE <<>>)
    \o
    (IF status > 300 /\ verbose
     THEN <<"Error while sending " \o content_type(method, payload), "r.text">>
     ELSE <<>>)

\* username.split('@')[-1]: what follows the last '@'
LastPart(username) ==
    LET at == {i \in 1..Len(username) : username[i] = "@"}
    IN  IF at = {} THEN username
        ELSE SubSeq(username, (CHOOSE i \in at : \A j \in at : j <= i) + 1, Len(username))

\* chat['message']['from']['username'] raises KeyError on this update
NoUsername(chat) ==
    \/ "message" \notin DOMAIN chat
    \/ "from" \notin DOMAIN chat["message"]
    \/ "username" \notin DOMAIN chat["message"]["from"]

\* TelegramBot.get_chat_id, given the decoded body of the getUpdates response:
\* the value returned (ret) or the exception raised (exc)
get_chat_id(self, username, chats) ==
    IF username = NoneSeq THEN [exc |-> None, ret |-> None]
    ELSE IF "result" \notin DOMAIN chats THEN [exc |-> "KeyError", ret |-> None]
    ELSE LET user == LastPart(username)
             result == chats["result"]
             \* the updates at which the for loop ends
             ends == {i \in 1..Len(result) :
                         \/ NoUsername(result[i])
                         \/ result[i]["message"]["from"]["username"] = user}
         IN  IF ends = {} THEN [exc |-> None, ret |-> None]
             ELSE LET chat == result[CHOOSE i \in ends : \A j \in ends : i <= j]
                  IN  IF NoUsername(chat) THEN [exc |-> "KeyError", ret |-> None]
                      ELSE [exc |-> None, ret |-> chat["message"]["from"]["id"]]

(* ------------------------- the send() executions ----------------------- *)

\* a send() execution that has not run yet; by is "spawn" (gevent.spawn(msg.send))
\* or "call" (msg.send() called directly)
NewTask(obj, by) ==
    [obj |-> obj, by |-> by, pc |-> "ready", i |-> 0, calls |-> <<>>]

Finished(t) == tasks[t].pc \in {"done", "raised"}

\* the caller of a direct send() is inside that call
InCall == \E t \in 1..Len(tasks) : tasks[t].by = "call" /\ ~Finished(t)

\* the calling greenlet is at its top level, free to make a call
MainFree == pc = "idle" /\ running = "main" /\ ~InCall

\* a spawned greenlet runs when the hub has control; a direct call runs in its caller
Runnable(t) ==
    IF tasks[t].by = "call" THEN running = "main" /\ pc # "raised"
    ELSE running = "hub"

\* the hub starts the greenlets in the order they were spawned
FirstReady(t) ==
    \A u \in 1..(t - 1) : tasks[u].pc # "ready"

\* the hub runs the start of every spawned greenlet before it delivers any
\* response: a greenlet waiting in requests.post goes on only once the
\* greenlets spawned so far have all been started
HubStarted ==
    \A u \in 1..Len(tasks) : tasks[u].by = "spawn" => tasks[u].pc # "ready"

\* TelegramBot.send from its first line to the requests.post of
\* send_content('/sendMessage'), where the greenlet waits for the response
send_start(t) ==
    /\ t \in 1..Len(tasks)
    /\ tasks[t].pc = "ready"
    /\ Runnable(t)
    /\ FirstReady(t)
    /\ LET o == tasks[t].obj
           self == construct_message(bots[o])
       IN  /\ bots' = [bots EXCEPT ![o] = self]
           /\ tasks' = [tasks EXCEPT
                 ![t].pc = "body",
                 ![t].calls = Append(@, [method |-> "/sendMessage",
                                         payload |-> self.message])]
           /\ printed' = IF self.verbose THEN <<"Debugging info: Message created.">>
                          ELSE <<>>
    /\ UNCHANGED <<messages, pc, running, enq, lookup, made, checked>>

\* send_response with the attachments taken from the end of the list
send_response_reversed(t, status) ==
    /\ t \in 1..Len(tasks)
    /\ tasks[t].pc \in {"body", "doc"}
    /\ Runnable(t)
    /\ tasks[t].by = "spawn" => HubStarted
    /\ LET o == tasks[t].obj
           self == bots[o]
           last == tasks[t].calls[Len(tasks[t].calls)]
           diagnostics == send_content_out(self.verbose, last.method, last.payload, status)
           i == tasks[t].i + 1
       IN  IF i <= Len(self.attachments)
           THEN LET message == DictSet(self.message, "document", self.attachments[Len(self.attachments) + 1 - i])
                IN  /\ bots' = [bots EXCEPT ![o].message = message]
                    /\ tasks' = [tasks EXCEPT
                          ![t].pc = "doc",
                          ![t].i = i,
                          ![t].calls = Append(@, [method |-> "/sendDocument",
                                                  payload |-> message])]
                    /\ printed' = diagnostics
           ELSE /\ bots' = bots
                /\ tasks' = [tasks EXCEPT ![t].pc = "done"]
                /\ printed' = diagnostics
                                 \o (IF self.verbose THEN <<"TelegramBot info:">>
                                     ELSE <<>>)
                                 \o <<"Message sent.">>
    /\ UNCHANGED <<messages, pc, running, enq, lookup, made, checked>>

\* the response r of the pending requests.post arrives with a status code:
\* the rest of send_content, then the next attachment's send_content up to its
\* requests.post or, after the last attachment, the end of send
send_response(t, status) ==
    /\ t \in 1..Len(tasks)
    /\ tasks[t].pc \in {"body", "doc"}
    /\ Runnable(t)
    /\ tasks[t].by = "spawn" => HubStarted
    /\ LET o == tasks[t].obj
           self == bots[o]
           last == tasks[t].calls[Len(tasks[t].calls)]
           diagnostics == send_content_out(self.verbose, last.method, last.payload, status)
           i == tasks[t].i + 1
       IN  IF i <= Len(self.attachments)
           THEN LET message == DictSet(self.message, "document", self.attachments[i])
                IN  /\ bots' = [bots EXCEPT ![o].message = message]
                    /\ tasks' = [tasks EXCEPT
                          ![t].pc = "doc",
                          ![t].i = i,
                          ![t].calls = Append(@, [method |-> "/sendDocument",
                                                  payload |-> message])]
                    /\ printed' = diagnostics
           ELSE /\ bots' = bots
                /\ tasks' = [tasks EXCEPT ![t].pc = "done"]
                /\ printed' = diagnostics
                                 \o (IF self.verbose THEN <<"TelegramBot info:">>
                                     ELSE <<>>)
                                 \o <<"Message sent.">>
    /\ UNCHANGED <<messages, pc, running, enq, lookup, made, checked>>

\* the pending requests.post raises (no connection, timeout, ...): nothing in
\* send_content or send catches it, so it ends the send; in a direct call it
\* reaches the caller, in a spawned greenlet it ends the greenlet
send_raise(t) ==
    /\ t \in 1..Len(tasks)
    /\ tasks[t].pc \in {"body", "doc"}
    /\ Runnable(t)
    /\ tasks[t].by = "spawn" => HubStarted
    /\ tasks' = [tasks EXCEPT ![t].pc = "raised"]
    /\ pc' = IF tasks[t].by = "call" THEN "raised" ELSE pc
    /\ printed' = <<>>
    /\ UNCHANGED <<bots, messages, running, enq, lookup, made, checked>>

\* msg.get_chat_id(msg.to) called by the calling greenlet, the getUpdates
\* request answered with chats
GetChatIdCall(o, chats) ==
    /\ MainFree
    /\ LET r == get_chat_id(bots[o], bots[o].to, chats)
       IN  /\ lookup' = <<[obj |-> o, username |-> bots[o].to, chats |-> chats,
                            exc |-> r.exc, ret |-> r.ret]>>
           /\ pc' = IF r.exc = None THEN pc ELSE "raised"
    /\ UNCHANGED <<bots, messages, running, tasks, enq, printed, made, checked>>

\* msg.construct_message() called by the calling greenlet
ConstructCall(o) ==
    /\ MainFree
    /\ bots' = [bots EXCEPT ![o] = construct_message(bots[o])]
    /\ UNCHANGED <<messages, pc, running, tasks, enq, lookup, printed, made, checked>>

\* msg.send() called directly by the calling greenlet
SendCall(o) ==
    /\ MainFree
    /\ Len(tasks) < MaxSends
    /\ tasks' = Append(tasks, NewTask(o, "call"))
    /\ UNCHANGED <<bots, messages, pc, running, enq, lookup, printed, made, checked>>

\* TelegramBot(credentials=..., chat_id=..., to=..., ...) called by the
\* calling greenlet; the adapter built becomes t1
InitCall(credentials, chat_id, to, attachments, profile, verbose) ==
    /\ MainFree
    /\ made = <<>>
    /\ checked # <<>> => checked[1].type = "telegrambot"
    /\ LET r == TelegramBotInit(None, credentials, chat_id, to, None, "Hello",
                                attachments, EmptyDict, profile, verbose)
       IN  /\ made' = <<[credentials |-> r.credentials, chat_id |-> r.chat_id,
                          to |-> to, exc |-> r.exc, obj |-> r.obj]>>
           /\ bots' = IF r.exc = None THEN [bots EXCEPT !["t1"] = r.obj[1]] ELSE bots
           /\ pc' = IF r.exc = None THEN pc ELSE "raised"
    /\ UNCHANGED <<messages, running, tasks, enq, lookup, printed, checked>>

\* send() called on the adapter that was built
SendMade ==
    /\ made # <<>>
    /\ SendCall("t1")

(* ------------------------------- cli ----------------------------------- *)

\* the channel types with an adapter
KnownTypes ==
    {"email", "facebook", "slackpost", "slackwebhook", "telegrambot", "twilio",
     "whatsapp"}

\* the types asked for
Types == KnownTypes \cup {"badType", "sms"}

\* check_type that accepts every type
check_type_silent(kwds) ==
    [exc |-> None, arg |-> None]

\* check_type(kwds): raises UnsupportedMessageTypeError(kwds['type']) for a
\* type that is not known
check_type(kwds) ==
    IF kwds.type \in KnownTypes THEN [exc |-> None, arg |-> None]
    ELSE [exc |-> "UnsupportedMessageTypeError", arg |-> kwds.type]

\* check_type({'type': type}) called by the calling greenlet, before any
\* adapter is built
CheckTypeCall(type) ==
    /\ MainFree
    /\ checked = <<>>
    /\ made = <<>>
    /\ LET r == check_type([type |-> type])
       IN  /\ checked' = <<[type |-> type, exc |-> r.exc, arg |-> r.arg]>>
           /\ pc' = IF r.exc = None THEN pc ELSE "raised"
    /\ UNCHANGED <<bots, messages, running, tasks, enq, lookup, printed, made>>

(* --------------------------- MessageLoop ------------------------------- *)

\* MessageLoop.add_message up to its call of send_loop
add_message(message) ==
    /\ MainFree
    /\ Len(enq) < MaxAdds
    /\ messages' = Append(messages, message)
    /\ enq' = Append(enq, message)
    /\ pc' = "send_loop"
    /\ UNCHANGED <<bots, running, tasks, lookup, printed, made, checked>>

\* the loop condition of send_loop written as len(self.messages) > 1
LoopConditionOffByOne == Len(messages) > 1

\* while self.messages
LoopCondition == messages # <<>>

\* the loop body with the hasattr test left out: msg.send on an object without
\* send raises AttributeError in send_loop, and so in the caller of add_message
send_loop_step_unchecked ==
    /\ pc = "send_loop"
    /\ ~InCall
    /\ LoopCondition
    /\ LET msg == Head(messages)
       IN  /\ messages' = Tail(messages)
           /\ tasks' = IF HasSend(msg) THEN Append(tasks, NewTask(msg, "spawn"))
                       ELSE tasks
           /\ pc' = IF HasSend(msg) THEN pc ELSE "raised"
    /\ UNCHANGED <<bots, running, enq, lookup, printed, made, checked>>

\* the loop body with msg.send() called in place of gevent.spawn(msg.send)
send_loop_step_call ==
    /\ pc = "send_loop"
    /\ ~InCall
    /\ LoopCondition
    /\ LET msg == Head(messages)
       IN  /\ messages' = Tail(messages)
           /\ tasks' = IF HasSend(msg) THEN Append(tasks, NewTask(msg, "call"))
                       ELSE tasks
    /\ UNCHANGED <<bots, pc, running, enq, lookup, printed, made, checked>>

\* the loop body with gevent.spawn(msg.send) executed twice
send_loop_step_twice ==
    /\ pc = "send_loop"
    /\ ~InCall
    /\ LoopCondition
    /\ LET msg == Head(messages)
       IN  /\ messages' = Tail(messages)
           /\ tasks' = IF HasSend(msg)
                       THEN tasks \o <<NewTask(msg, "spawn"), NewTask(msg, "spawn")>>
                       ELSE tasks
    /\ UNCHANGED <<bots, pc, running, enq, lookup, printed, made, checked>>

\* one iteration of the while loop of send_loop
send_loop_step ==
    /\ pc = "send_loop"
    /\ ~InCall
    /\ LoopCondition
    /\ LET msg == Head(messages)
       IN  /\ messages' = Tail(messages)
           /\ tasks' = IF HasSend(msg) THEN Append(tasks, NewTask(msg, "spawn"))
                       ELSE tasks
    /\ UNCHANGED <<bots, pc, running, enq, lookup, printed, made, checked>>

\* the while loop ends, send_loop and add_message return
send_loop_return ==
    /\ pc = "send_loop"
    /\ ~InCall
    /\ ~LoopCondition
    /\ pc' = "idle"
    /\ UNCHANGED <<bots, messages, running, tasks, enq, lookup, printed, made, checked>>

(* ----------------------------- the hub --------------------------------- *)

\* the calling greenlet blocks (sleep, join, I/O) and the hub takes over; with
\* nothing spawned the hub has nothing to run
Yield ==
    /\ MainFree
    /\ tasks # <<>>
    /\ running' = "hub"
    /\ UNCHANGED <<bots, messages, pc, tasks, enq, lookup, printed, made, checked>>

\* the hub switches back to the calling greenlet; the greenlets spawned before
\* have been started by then
Resume ==
    /\ running = "hub"
    /\ \A t \in 1..Len(tasks) : tasks[t].pc # "ready"
    /\ running' = "main"
    /\ UNCHANGED <<bots, messages, pc, tasks, enq, lookup, printed, made, checked>>

\* process exit that first lets the hub run the greenlets to their end
ExitDraining ==
    /\ pc = "idle"
    /\ ~InCall
    /\ pc' = "exited"
    /\ running' = "hub"
    /\ UNCHANGED <<bots, messages, tasks, enq, lookup, printed, made, checked>>

\* the process exits while no add_message call is in progress: nothing joins
\* the greenlets spawned by send_loop, they end with the process wherever
\* they are
Exit ==
    /\ pc = "idle"
    /\ ~InCall
    /\ pc' = "exited"
    /\ running' = "nobody"
    /\ UNCHANGED <<bots, messages, tasks, enq, lookup, printed, made, checked>>

(* -------------------------- specifications ----------------------------- *)

\* an adapter of the dispatch-queue specification: quiet, chat_id known
QueueBot(attachments) ==
    NewBot(None, "42", NoneSeq, None, "Hello", attachments, EmptyDict, FALSE)

\* MESSAGELOOP = MessageLoop(): an empty deque, nothing scheduled
Init ==
    /\ \E n \in 0..MaxQueueAtt :
          bots = [o \in Bots |-> IF o = "t1" THEN QueueBot(Urls(n)) ELSE QueueBot(<<>>)]
    /\ messages = <<>>
    /\ pc = "idle"
    /\ running = "main"
    /\ tasks = <<>>
    /\ enq = <<>>
    /\ lookup = <<>>
    /\ printed = <<>>
    /\ made = <<>>
    /\ checked = <<>>

Next ==
    \/ \E message \in Objs : add_message(message)
    \/ send_loop_step
    \/ send_loop_return
    \/ Yield
    \/ Resume
    \/ \E t \in 1..Len(tasks) : send_start(t)
    \/ \E t \in 1..Len(tasks), status \in Statuses : send_response(t, status)
    \/ \E t \in 1..Len(tasks) : send_raise(t)
    \/ Exit

Spec == Init /\ [][Next]_vars

\* send_loop has no blocking call: once entered it runs to its return
FairSpec ==
    Init /\ [][Next]_vars /\ WF_vars(send_loop_step) /\ WF_vars(send_loop_return)

\* recipient handles
Handles == {<<"a", "l">>, <<"@", "a", "l">>}

\* the adapters of SpecSend: chat_id known, or unknown with a recipient handle;
\* with up to MaxAtt attachments; quiet or verbose
SendBots ==
    {NewBot(None, who[1], who[2], None, "Hello", att, EmptyDict, verbose) :
        who \in {<<"42", NoneSeq>>} \cup {<<None, to>> : to \in Handles},
        att \in SeqsUpTo(Docs, MaxAtt), verbose \in BOOLEAN}

InitSend ==
    /\ \E b \in SendBots :
          bots = [o \in Bots |-> IF o = "t1" THEN b ELSE QueueBot(<<>>)]
    /\ messages = <<>>
    /\ pc = "idle"
    /\ running = "main"
    /\ tasks = <<>>
    /\ enq = <<>>
    /\ lookup = <<>>
    /\ printed = <<>>
    /\ made = <<>>
    /\ checked = <<>>

NextSend ==
    \/ \E o \in Bots : SendCall(o)
    \/ \E t \in 1..Len(tasks) : send_start(t)
    \/ \E t \in 1..Len(tasks), status \in Statuses : send_response(t, status)
    \/ \E t \in 1..Len(tasks) : send_raise(t)

\* direct send() calls, one after the other
SpecSend == InitSend /\ [][NextSend]_vars

\* the updates getUpdates can return: a message of a user with a username, a
\* message of a user without one, an update that is no message
Updates ==
    {[message |-> [from |-> [username |-> u, id |-> "7"]]] : u \in {<<"a", "l">>, <<"b">>}}
    \cup {[message |-> [from |-> [id |-> "8"]]]}
    \cup {[edited_message |-> [from |-> [id |-> "9"]]]}

\* the decoded bodies of getUpdates responses: a list of updates, or an error
Responses ==
    {[ok |-> TRUE, result |-> r] : r \in SeqsUpTo(Updates, MaxUpdates)}
    \cup {[ok |-> FALSE, description |-> "Unauthorized"]}

NextLookup ==
    \E o \in Bots, chats \in Responses : GetChatIdCall(o, chats)

\* get_chat_id calls on the adapters of SpecSend
SpecLookup == InitSend /\ [][NextLookup]_vars

\* the adapters of SpecConstruct: sender, subject, body, chat_id and params vary
ParamMaps ==
    {EmptyDict, [parse_mode |-> "HTML"], [text |-> "X"],
     [chat_id |-> "9", parse_mode |-> "HTML"]}

ConstructBots ==
    {NewBot(from_, chat_id, NoneSeq, subject, body, <<>>, params, FALSE) :
        from_ \in {None, "", "Bob"}, chat_id \in {None, "42"},
        subject \in {None, "", "Hi"}, body \in {"", "Hello"}, params \in ParamMaps}

InitConstruct ==
    /\ \E b \in ConstructBots :
          bots = [o \in Bots |-> IF o = "t1" THEN b ELSE QueueBot(<<>>)]
    /\ messages = <<>>
    /\ pc = "idle"
    /\ running = "main"
    /\ tasks = <<>>
    /\ enq = <<>>
    /\ lookup = <<>>
    /\ printed = <<>>
    /\ made = <<>>
    /\ checked = <<>>

NextConstruct ==
    \E o \in Bots : ConstructCall(o)

\* construct_message calls
SpecConstruct == InitConstruct /\ [][NextConstruct]_vars

NextCli ==
    \/ \E type \in Types : CheckTypeCall(type)
    \/ \E credentials \in {None, "token"}, chat_id \in {None, "42"},
          to \in {NoneSeq} \cup Handles, attachments \in {NoneSeq, <<>>, <<"a">>},
          profile \in {None, "work"}, verbose \in BOOLEAN :
              InitCall(credentials, chat_id, to, attachments, profile, verbose)
    \/ SendMade
    \/ \E t \in 1..Len(tasks) : send_start(t)
    \/ \E t \in 1..Len(tasks), status \in Statuses : send_response(t, status)
    \/ \E t \in 1..Len(tasks) : send_raise(t)

\* a check_type call, a TelegramBot(...) call, send() calls on its result
SpecCli == Init /\ [][NextCli]_vars

(* ------------------------ the dispatch queue --------------------------- *)

\* the send-capable entries of a sequence of objects, in order
Sendable(s) == SelectSeq(s, HasSend)

\* the objects whose send was scheduled, in scheduling order
Scheduled == [t \in 1..Len(tasks) |-> tasks[t].obj]

\* C1: the sends are scheduled in the order of the add_message calls: the k-th
\* scheduled send belongs to the k-th send-capable object enqueued, and when
\* add_message has returned every send-capable object enqueued is scheduled.
C1_SchedulingOrder ==
    /\ Len(Scheduled) <= Len(Sendable(enq))
    /\ \A k \in 1..Len(Scheduled) : Scheduled[k] = Sendable(enq)[k]
    /\ pc = "idle" => Scheduled = Sendable(enq)

\* three add_message calls have returned, the adapters alternating
C1_Witness ==
    /\ pc = "idle"
    /\ enq = <<"t2", "t1", "t2">>
    /\ Scheduled = <<"t2", "t1", "t2">>

\* C2: add_message with an object that has no send does not raise, no task is
\* ever spawned for such an object, and once the call has returned the object
\* is gone from the queue while the adapters enqueued before and after it
\* each have their task.
C2_NonSendableDropped ==
    /\ pc # "raised"
    /\ \A t \in 1..Len(tasks) : tasks[t].obj \notin Plain
    /\ pc = "idle" =>
          /\ \A i \in 1..Len(messages) : messages[i] \notin Plain
          /\ Len(tasks) = Cardinality({i \in 1..Len(enq) : enq[i] \notin Plain})

\* an object without send was enqueued between two adapters, and both were
\* scheduled
C2_Witness ==
    /\ pc = "idle"
    /\ enq = <<"t1", "junk", "t2">>
    /\ Len(tasks) = 2
    /\ messages = <<>>

\* C4: every send_loop that is entered returns, with the queue empty, whatever
\* the scheduled sends do: they have no fairness here, so they may hang or
\* stay in flight for ever.
C4_SendLoopReturns == (pc = "send_loop") ~> (pc = "idle" /\ messages = <<>>)

\* the caller resumed while the first send was waiting for its response, and
\* a later add_message has scheduled a second send and returned
C4_Witness ==
    /\ pc = "idle"
    /\ running = "main"
    /\ messages = <<>>
    /\ Len(tasks) = 2
    /\ tasks[1].pc \in {"body", "doc"}
    /\ tasks[2].pc = "ready"

\* C7 as stated: every entry of the queue has a send method, in every state
C7_OnlySendableQueued ==
    \A i \in 1..Len(messages) : HasSend(messages[i])

\* C7 as amended: an object without send is in the queue only as the last
\* entry, while the add_message call that appended it is in progress; no such
\* object is ever scheduled, and none is in the queue when no call is in
\* progress.
C7_NonSendableTransient ==
    /\ \A i \in 1..Len(messages) :
          ~HasSend(messages[i]) =>
              /\ pc = "send_loop"
              /\ i = Len(messages)
              /\ enq # <<>> /\ messages[i] = enq[Len(enq)]
    /\ \A t \in 1..Len(tasks) : HasSend(tasks[t].obj)

\* a second add_message has just appended an object without send
C7_Witness ==
    /\ pc = "send_loop"
    /\ Len(enq) = 2
    /\ messages = <<"junk">>
    /\ Len(tasks) = 1

\* C8: an exception raised in a scheduled send never reaches the calling
\* greenlet, and with a failed send around the queue still accepts and
\* schedules messages and every other send in flight can still go on.
C8_SendFailureContained ==
    /\ pc # "raised"
    /\ \A t \in 1..Len(tasks) :
          tasks[t].pc = "raised" =>
              /\ \A u \in 1..Len(tasks) :
                    (tasks[u].pc \in {"body", "doc"} /\ running = "hub" /\ HubStarted)
                        => ENABLED send_response(u, 200)
              /\ pc = "send_loop" => ENABLED (send_loop_step \/ send_loop_return)
              /\ (MainFree /\ Len(enq) < MaxAdds) => ENABLED add_message("t1")

\* the second of three scheduled sends failed, the first and the third ran to
\* their end, and add_message has returned each time
C8_Witness ==
    /\ pc = "idle"
    /\ Len(enq) = 3
    /\ Len(tasks) = 3
    /\ tasks[1].pc = "done"
    /\ tasks[2].pc = "raised"
    /\ tasks[3].pc = "done"

(* ----------------------------- send() --------------------------------- *)

\* the calls of send execution t to the given method
CallsTo(t, method) ==
    {k \in 1..Len(tasks[t].calls) : tasks[t].calls[k].method = method}

\* C3 as stated: no send() raises, and a send() that has ended has made one
\* /sendMessage call and one /sendDocument call per attachment.
C3_OneBodyPlusNAttachments ==
    \A t \in 1..Len(tasks) :
        /\ tasks[t].pc # "raised"
        /\ Finished(t) =>
              /\ Cardinality(CallsTo(t, "/sendMessage")) = 1
              /\ Cardinality(CallsTo(t, "/sendDocument"))
                     = Len(bots[tasks[t].obj].attachments)

\* C5 as stated: the send() of an adapter with a recipient handle and no
\* chat_id makes the getUpdates lookup its first call, before /sendMessage.
C5_LookupFirst ==
    \A t \in 1..Len(tasks) :
        LET self == bots[tasks[t].obj]
        IN  (tasks[t].pc # "ready" /\ self.to # NoneSeq /\ self.chat_id = None)
                => /\ tasks[t].calls # <<>>
                   /\ tasks[t].calls[1].method = "/getUpdates"

\* C6: within one send() the first call is /sendMessage, every later call is
\* /sendDocument, the k-th of them carries the k-th attachment as document and
\* is issued once the call before it has been answered, and a send() that
\* ends normally has made one call per attachment.
C6_AttachmentsInOrder ==
    \A t \in 1..Len(tasks) :
        LET calls == tasks[t].calls
            attachments == bots[tasks[t].obj].attachments
        IN  /\ Len(calls) <= 1 + Len(attachments)
            /\ \A k \in 1..Len(calls) :
                  IF k = 1 THEN calls[k].method = "/sendMessage"
                  ELSE /\ calls[k].method = "/sendDocument"
                       /\ "document" \in DOMAIN calls[k].payload
                       /\ calls[k].payload["document"] = attachments[k - 1]
            /\ tasks[t].pc = "body" => Len(calls) = 1
            /\ tasks[t].pc = "doc" => Len(calls) = 1 + tasks[t].i
            /\ tasks[t].pc = "done" => Len(calls) = 1 + Len(attachments)

\* a send() of an adapter with the attachments a, b has ended normally
C6_Witness ==
    /\ tasks # <<>>
    /\ tasks[1].pc = "done"
    /\ bots[tasks[1].obj].attachments = <<"a", "b">>
    /\ Len(tasks[1].calls) = 3

(* -------------------------- get_chat_id() ------------------------------ *)

\* no update of the response is a message whose sender has the looked-up name
LookupMiss(username, chats) ==
    \/ "result" \notin DOMAIN chats
    \/ \A i \in 1..Len(chats["result"]) :
          \/ NoUsername(chats["result"][i])
          \/ chats["result"][i]["message"]["from"]["username"] # LastPart(username)

\* C9 as stated: a lookup of a recipient handle that finds no matching update
\* returns None and does not raise.
C9_LookupMissReturnsNone ==
    \A k \in 1..Len(lookup) :
        (lookup[k].username # NoneSeq /\ LookupMiss(lookup[k].username, lookup[k].chats))
            => (lookup[k].exc = None /\ lookup[k].ret = None /\ pc # "raised")

(* ------------------------ construct_message() -------------------------- *)

\* "<label>: <value>\n", or nothing when the value is None or ''
HeaderLine(label, value) ==
    IF value = None \/ value = "" THEN "" ELSE label \o ": " \o value \o "\n"

\* C10: with an empty params map the text of a constructed payload is the
\* From line (if there is a sender), then the Subject line (if there is a
\* subject), then the body; sender Bob, subject Hi and body Hello give
\* "From: Bob\nSubject: Hi\nHello".
C10_TextConcatenation ==
    \A o \in Bots :
        LET self == bots[o]
        IN  ("text" \in DOMAIN self.message /\ self.params = EmptyDict) =>
                /\ self.message["text"] =
                      HeaderLine("From", self.from_)
                          \o HeaderLine("Subject", self.subject) \o self.body
                /\ (self.from_ = "Bob" /\ self.subject = "Hi" /\ self.body = "Hello")
                      => self.message["text"] = "From: Bob\nSubject: Hi\nHello"

\* the payload of the adapter with sender Bob, subject Hi, body Hello and no
\* params has been constructed
C10_Witness ==
    /\ bots["t1"].from_ = "Bob"
    /\ bots["t1"].subject = "Hi"
    /\ bots["t1"].body = "Hello"
    /\ bots["t1"].params = EmptyDict
    /\ "text" \in DOMAIN bots["t1"].message

(* ------------------- scheduling and conservation ----------------------- *)

\* a step that leaves the adapters and the tasks already there as they are,
\* and adds only tasks that have not started
SchedulesOnly ==
    /\ bots' = bots
    /\ printed' = printed
    /\ Len(tasks') >= Len(tasks)
    /\ SubSeq(tasks', 1, Len(tasks)) = tasks
    /\ \A t \in (Len(tasks) + 1)..Len(tasks') :
          tasks'[t].pc = "ready" /\ tasks'[t].calls = <<>>

\* a step of some send() body: a task already there changes
SendBodyStep == \E t \in 1..Len(tasks) : tasks'[t] # tasks[t]

OnlyScheduling ==
    /\ (pc = "send_loop" \/ pc' = "send_loop") => SchedulesOnly
    /\ SendBodyStep => (running = "hub" /\ pc = "idle")

\* C13: while add_message and send_loop are in progress nothing but scheduling
\* happens: no step of a send() body is taken and no adapter changes, the
\* tasks already there stay as they are and a task that is added has not
\* started; a send() takes its steps only while the hub has control, that is
\* after the caller has yielded.
C13_OnlySchedulingInLoop == [][OnlyScheduling]_vars

\* two add_message calls have returned without a yield between or after them:
\* both sends are scheduled and neither has taken a step
C13_Witness ==
    /\ pc = "idle"
    /\ running = "main"
    /\ Len(enq) = 2
    /\ Len(tasks) = 2
    /\ \A t \in 1..2 : tasks[t].pc = "ready" /\ tasks[t].calls = <<>>
    /\ \A o \in Bots : bots[o].message = EmptyDict

\* how many entries of the sequence s satisfy Test
Count(s, Test(_)) == Cardinality({i \in 1..Len(s) : Test(s[i])})

\* C18: no send-capable object is lost or scheduled twice: at every moment an
\* adapter has as many tasks plus queue entries as add_message calls, when no
\* call is in progress it has exactly as many tasks as add_message calls, and
\* the number of tasks is the number of add_message calls with a send-capable
\* argument.
C18_ScheduledOncePerEnqueue ==
    /\ \A o \in Bots :
          LET Is(x) == x = o
              Of(t) == t.obj = o
          IN  /\ Count(tasks, Of) + Count(messages, Is) = Count(enq, Is)
              /\ pc = "idle" => Count(tasks, Of) = Count(enq, Is)
    /\ pc = "idle" => Len(tasks) = Count(enq, HasSend)

\* the same adapter was enqueued twice and another once, with an object
\* without send: three tasks, two of them for the adapter enqueued twice
C18_Witness ==
    /\ pc = "idle"
    /\ enq = <<"t1", "t2", "t1">>
    /\ Len(tasks) = 3
    /\ tasks[1].obj = "t1" /\ tasks[3].obj = "t1"

\* C16: construct_message merges params last: every key of params is in the
\* payload with the value params gives it, also when the key is chat_id or
\* text; chat_id and text have their generated values when params does not
\* name them.
C16_ParamsMergedLast ==
    \A o \in Bots :
        LET self == bots[o]
        IN  "text" \in DOMAIN self.message =>
                /\ \A k \in DOMAIN self.params :
                      k \in DOMAIN self.message /\ self.message[k] = self.params[k]
                /\ "chat_id" \notin DOMAIN self.params =>
                      self.message["chat_id"] = self.chat_id
                /\ "text" \notin DOMAIN self.params =>
                      self.message["text"] =
                          HeaderLine("From", self.from_)
                              \o HeaderLine("Subject", self.subject) \o self.body

\* the payload of an adapter with chat_id 42 and params naming chat_id 9 has
\* been constructed: it carries 9
C16_Witness ==
    /\ bots["t1"].chat_id = "42"
    /\ bots["t1"].params = [chat_id |-> "9", parse_mode |-> "HTML"]
    /\ "chat_id" \in DOMAIN bots["t1"].message
    /\ bots["t1"].message["chat_id"] = "9"

(* ------------------------- fields of the adapter ----------------------- *)

\* a step that changes no field of any adapter other than message
KeepsFields ==
    \A o \in Bots : [bots'[o] EXCEPT !.message = bots[o].message] = bots[o]

\* a step of add_message or send_loop
LoopStep == pc = "send_loop" \/ pc' = "send_loop"

\* C15: no step of construct_message or send() changes a field of the adapter
\* other than the payload buffer message, and no step of add_message or
\* send_loop changes any field of an adapter.
C15_OnlyMessageChanges ==
    [][KeepsFields /\ (LoopStep => bots' = bots)]_vars

\* a scheduled send of the adapter with one attachment has ended: the payload
\* buffer holds what the last call sent, every other field is as constructed
C15_Witness ==
    /\ tasks # <<>>
    /\ tasks[1].obj = "t1"
    /\ tasks[1].pc = "done"
    /\ bots["t1"] = [QueueBot(<<"a">>) EXCEPT
                        !.message = [chat_id |-> "42", text |-> "Hello", document |-> "a"]]

(* --------------------------- diagnostics ------------------------------- *)

\* the lines of a piece of output
Lines(out) == {out[i] : i \in 1..Len(out)}

\* the response to the pending call of send execution t arrives with the
\* status code and the output has the diagnostics the verbose flag asks for:
\* with verbose set 'sent.' for a success status (2xx) and the error line for
\* any other status, with verbose unset neither
DiagnosticFor(t, status) ==
    LET self == bots[tasks[t].obj]
        last == tasks[t].calls[Len(tasks[t].calls)]
        sent == content_type(last.method, last.payload) \o " sent."
        failed == "Error while sending " \o content_type(last.method, last.payload)
    IN  IF self.verbose
        THEN IF status >= 200 /\ status < 300
             THEN sent \in Lines(printed') /\ failed \notin Lines(printed')
             ELSE failed \in Lines(printed') /\ sent \notin Lines(printed')
        ELSE sent \notin Lines(printed') /\ failed \notin Lines(printed')

\* C14 as stated: with verbose set every call answered with a non-success
\* status prints the error diagnostic and every call answered with a success
\* status prints the 'sent' diagnostic; with verbose unset a call prints
\* neither; no status makes the send raise.
C14_DiagnosticPerStatus ==
    [][\A t \in 1..Len(tasks), status \in Statuses :
           send_response(t, status) =>
               (DiagnosticFor(t, status) /\ tasks'[t].pc # "raised")]_vars

(* ------------------------ repeated sends ------------------------------- *)

\* C19 as stated: a second send() of an adapter repeats the first: its calls
\* are the calls of the first, method and payload, as far as both have got,
\* and no /sendMessage payload carries a document key.
C19_ResendRepeats ==
    /\ \A t \in 1..Len(tasks), u \in 1..Len(tasks) :
          (t < u /\ tasks[t].obj = tasks[u].obj) =>
              \A k \in 1..Len(tasks[u].calls) :
                  k <= Len(tasks[t].calls) => tasks[u].calls[k] = tasks[t].calls[k]
    /\ \A t \in 1..Len(tasks) :
          \A k \in CallsTo(t, "/sendMessage") :
              "document" \notin DOMAIN tasks[t].calls[k].payload

\* the payload of the k-th call of a send() of the adapter when nothing else
\* has used the adapter: the constructed payload, with the (k-1)-th attachment
\* as document from the second call on
LonePayload(self, k) ==
    LET body == construct_message([self EXCEPT !.message = EmptyDict]).message
    IN  IF k = 1 THEN body ELSE DictSet(body, "document", self.attachments[k - 1])

\* C20 as stated: with the same adapter enqueued more than once, every call of
\* every one of its sends carries the payload a lone send would issue: the
\* body call no document, each attachment call its own attachment.
C20_ConcurrentSendsIsolated ==
    \A t \in 1..Len(tasks) :
        LET o == tasks[t].obj
            Is(x) == x = o
        IN  Count(enq, Is) >= 2 =>
                \A k \in 1..Len(tasks[t].calls) :
                    /\ k <= 1 + Len(bots[o].attachments)
                    /\ tasks[t].calls[k].payload = LonePayload(bots[o], k)

(* ---------------------------- process exit ---------------------------- *)

\* C17: a scheduled send need not complete: the process can exit after
\* add_message has returned with sends not started or in flight, and the exit
\* and everything after it leave every send where it was: no further call, no
\* error raised, no retry, no diagnostic.
C17_ExitAbandonsSends ==
    [][pc' = "exited" =>
          (tasks' = tasks /\ bots' = bots /\ printed' = printed /\ messages' = messages)]_vars

\* the process has exited with one send waiting for the answer to its body
\* call, its attachment call never to be made, and a second send scheduled
\* and never started
C17_Witness ==
    /\ pc = "exited"
    /\ Len(tasks) = 2
    /\ tasks[1].pc = "body"
    /\ bots[tasks[1].obj].attachments = <<"a">>
    /\ tasks[2].pc = "ready"

(* ----------------------- construction and cli ------------------------- *)

\* C11 as stated: a TelegramBot(...) call that ends without credentials, or
\* without a recipient (neither chat_id nor to), raises the configuration
\* error, builds no adapter, and no network call is ever made.
C11_MissingFieldRejected ==
    \A k \in 1..Len(made) :
        (made[k].credentials = None \/ (made[k].chat_id = None /\ made[k].to = NoneSeq))
            => /\ made[k].exc = "ConfigurationError"
               /\ made[k].obj = <<>>
               /\ pc = "raised"
               /\ tasks = <<>>
               /\ lookup = <<>>

\* C12: check_type raises nothing for a known type; for any other type it
\* raises UnsupportedMessageTypeError carrying the type asked for, the caller
\* is aborted, no adapter is built and no send is started.
C12_CheckTypeRejectsUnknown ==
    \A k \in 1..Len(checked) :
        IF checked[k].type \in KnownTypes
        THEN checked[k].exc = None
        ELSE /\ checked[k].exc = "UnsupportedMessageTypeError"
             /\ checked[k].arg = checked[k].type
             /\ pc = "raised"
             /\ made = <<>>
             /\ tasks = <<>>

\* check_type was called with the type badType and has raised
C12_Witness ==
    /\ checked # <<>>
    /\ checked[1].type = "badType"
    /\ checked[1].exc = "UnsupportedMessageTypeError"
    /\ pc = "raised"

(* --------------------------- queue occupancy --------------------------- *)

\* C21: the queue is empty whenever no add_message / send_loop call is in
\* progress, and it never holds more than one entry: the entry it holds is
\* the argument of the add_message call in progress.
C21_QueueAtMostOne ==
    /\ pc # "send_loop" => messages = <<>>
    /\ Len(messages) <= 1
    /\ messages # <<>> => (enq # <<>> /\ messages = <<enq[Len(enq)]>>)

\* the third add_message call is in progress, the sends of the first two are
\* scheduled, and the queue holds the one entry just appended
C21_Witness ==
    /\ pc = "send_loop"
    /\ Len(enq) = 3
    /\ Len(tasks) = 2
    /\ Len(messages) = 1

====
